---- MODULE Spec2Model ----
(***************************************************************************)
(* Model of app/services/material.py: the key rotation of get_api_key,     *)
(* the cache/downloaders save_video and _save_video_permissive_ssl, the    *)
(* pollers of generate_videos_kling and _generate_volcengine_video, and    *)
(* the budget loops of download_videos, _download_kling_videos and         *)
(* _download_volcengine_videos.                                            *)
(*                                                                         *)
(* Strings are sequences of one-character strings where the code splits    *)
(* them (URLs), plain strings elsewhere.  Durations are whole seconds,     *)
(* except the provider's raw kling durations, which are tenths of a        *)
(* second before int(float(.)) truncates them.  A remote answer (search    *)
(* response, submission result, task status, download body) is an input    *)
(* chosen when the call is made.                                           *)
(***************************************************************************)
EXTENDS Integers, Sequences, FiniteSets, TLC

\* ---------------------------------------------------------------- bounds
MaxTerms == 2      \* search terms of one run
MaxResults == 2    \* videos in one search response
MaxAssets == 2     \* videos in one kling task result
MaxAudio == 3      \* audio_duration ranges over 0..MaxAudio
MaxCap == 2        \* max_clip_duration ranges over 1..MaxCap
MaxKeys == 3       \* keys in a configured key list
MaxCalls == 5      \* get_api_key calls followed in SpecKeys
MaxThreads == 2    \* threads calling get_api_key in SpecThreads
MaxThreadCalls == 2  \* get_api_key calls of one thread in SpecThreads

\* ------------------------------------------------------ program constants
KlingPollCap == 60
VolcPollCap == 100
VolcClipSeconds == 5
KlingDefaultDuration == 5

\* ------------------------------------------------------------ input sets
SearchSources == {"pexels", "pixabay"}
GenerativeSources == {"kling", "volcengine"}
Sources == SearchSources \cup GenerativeSources
ConcatModes == {"random", "sequential"}

\* Two URLs share everything before the "?", the third differs.
Ua == <<"a">>
Uax == <<"a", "?", "x">>
Ub == <<"b">>
URLs == {Ua, Uax, Ub}
\* str(get_result), the diagnostic text line 385 returns in place of a URL.
DiagText == <<"<", "r", ">">>
NoPath == <<>>
CacheDir == "cache_videos"

\* Raw kling duration: missing from the response, or tenths of a second.
Absent == -1
KlingRawDurations == {Absent, 15}

\* A stock video is as short as can be, or longer than any per-clip cap.
StockDurations == {1, MaxCap + 1}

Min(a, b) == IF a <= b THEN a ELSE b
Range(s) == {s[i] : i \in 1..Len(s)}
SeqsUpTo(S, n) == UNION {[1..k -> S] : k \in 0..n}

\* ----------------------------------------------------------------- state
VARIABLES
  source, search_terms, audio_duration, max_clip_duration, video_contact_mode,
  config,              \* config.app: the key pools and the generative credentials
  requested_count,     \* the module-level rotation counter (line 21)
  calls,               \* SpecKeys: the get_api_key calls made so far, with their results
  pc,                  \* where the run is
  term_idx,            \* position in search_terms (1-based) of the term at hand
  valid_video_items,   \* search providers: the deduplicated pool
  items,               \* kling: the candidates of the term at hand
  video_url,           \* volcengine: the URL of the term at hand ("" is <<>>)
  item_idx,            \* position of the next candidate; item_idx - 1 were attempted
  video_paths, total_duration,
  files,               \* the file system below the cache directory: path -> content
  task_status, polls,  \* the generation task at hand and its status fetches so far
  task_result,         \* the videos of the last "succeed" answer, as received
  task_term,           \* the term the last submitted task was submitted for (0: none yet)
  error,               \* what made the run raise ("none" while it has not)
  last,                \* the last remote call: what it was and how it ended
  video_items,         \* SpecPool: what the search of the last term returned (line 518)
  threads              \* SpecThreads: each thread's place in get_api_key

runVars == <<source, search_terms, audio_duration, max_clip_duration, video_contact_mode,
             pc, term_idx, valid_video_items, items, video_url, item_idx, video_paths,
             total_duration, files, task_status, polls, task_result, task_term, error,
             last>>
vars == <<runVars, config, requested_count, calls, video_items, threads>>

\* ------------------------------------------------------ get_api_key (24-38)
PoolNames == {"pexels_api_keys", "pixabay_api_keys"}
KeyList(n) == [i \in 1..n |-> <<"k1", "k2", "k3", "k4">>[i]]
\* A configured value: unset/empty, one string, or a list.
PoolValues ==
  {[kind |-> "unset", keys |-> <<>>], [kind |-> "str", keys |-> <<"k1">>]}
    \cup {[kind |-> "list", keys |-> KeyList(n)] : n \in 0..MaxKeys}
NoKey == "none"

\* A thread in get_api_key: where it is (pc), the pool it was called for, the
\* counter value its read of line 37 loaded, the value its store of line 37
\* wrote (own), the counter value line 38 indexed the pool by (used), the key
\* it returned last, and its completed calls: all (done) and those that went
\* through line 37 (counted).
Threads == 1..MaxThreads
IdleThread == [pc |-> "idle", cfg_key |-> "none", loaded |-> 0, own |-> 0, used |-> 0,
               key |-> NoKey, done |-> 0, counted |-> 0]

get_api_key_stuck(cfg_key, count) ==
  LET api_keys == config[cfg_key] IN
  IF Len(api_keys.keys) = 0
    THEN [raised |-> TRUE, key |-> NoKey, count |-> count]
  ELSE IF api_keys.kind = "str"
    THEN [raised |-> FALSE, key |-> api_keys.keys[1], count |-> count]
  ELSE [raised |-> FALSE, key |-> api_keys.keys[(count % Len(api_keys.keys)) + 1],
        count |-> count]

get_api_key_counts_first(cfg_key, count) ==
  LET api_keys == config[cfg_key] IN
  IF Len(api_keys.keys) = 0
    THEN [raised |-> TRUE, key |-> NoKey, count |-> count + 1]
  ELSE IF api_keys.kind = "str"
    THEN [raised |-> FALSE, key |-> api_keys.keys[1], count |-> count + 1]
  ELSE [raised |-> FALSE,
        key |-> api_keys.keys[((count + 1) % Len(api_keys.keys)) + 1],
        count |-> count + 1]

\* The result of get_api_key(cfg_key) when requested_count is count: whether it
\* raised, the key returned, and the new value of requested_count.
get_api_key(cfg_key, count) ==
  LET api_keys == config[cfg_key] IN
  IF Len(api_keys.keys) = 0
    THEN [raised |-> TRUE, key |-> NoKey, count |-> count]
  ELSE IF api_keys.kind = "str"
    THEN [raised |-> FALSE, key |-> api_keys.keys[1], count |-> count]
  ELSE [raised |-> FALSE,
        key |-> api_keys.keys[((count + 1) % Len(api_keys.keys)) + 1],
        count |-> count + 1]

\* ------------------------------------------------- cache path (161-164)
SplitQueryKeep(url) == url

\* video_url.split("?")[0]
SplitQuery(url) ==
  LET marks == {i \in 1..Len(url) : url[i] = "?"} IN
  IF marks = {} THEN url
  ELSE SubSeq(url, 1, (CHOOSE i \in marks : \A j \in marks : i <= j) - 1)

\* utils.md5: a digest, modelled as an injective tagging of its input.
Md5(s) == <<"md5">> \o s

VideoPath(url, save_dir) ==
  <<save_dir, "/vid-">> \o Md5(SplitQuery(url)) \o <<".mp4">>

Paths == {VideoPath(u, CacheDir) : u \in URLs \cup {DiagText}}
\* What a path holds: nothing, an empty file, or a body of one of three kinds.
Bodies == {"valid", "undecodable", "zero_duration"}
NonEmpty(fs, p) == fs[p] \in Bodies

\* ------------------------------------------------------ save_video (154-201)
\* What the download brings: a body, an empty body, or a transport error.
NetOutcomes == Bodies \cup {"empty_body", "transport_error"}

save_video_nocache(fs, url, save_dir, net) ==
  LET video_path == VideoPath(url, save_dir)
      written == [fs EXCEPT ![video_path] = IF net = "empty_body" THEN "empty" ELSE net]
  IN
  IF net = "transport_error"
    THEN [files |-> [fs EXCEPT ![video_path] = "empty"], ret |-> NoPath,
          raised |-> TRUE, hit |-> FALSE]
  ELSE IF net = "undecodable"
    THEN [files |-> [written EXCEPT ![video_path] = "absent"],
          ret |-> NoPath, raised |-> FALSE, hit |-> FALSE]
  ELSE [files |-> written, ret |-> IF net = "valid" THEN video_path ELSE NoPath,
        raised |-> FALSE, hit |-> FALSE]

save_video_unvalidated(fs, url, save_dir, net) ==
  LET video_path == VideoPath(url, save_dir)
      written == [fs EXCEPT ![video_path] = IF net = "empty_body" THEN "empty" ELSE net]
  IN
  IF NonEmpty(fs, video_path)
    THEN [files |-> fs, ret |-> video_path, raised |-> FALSE, hit |-> TRUE]
  ELSE IF net = "transport_error"
    THEN [files |-> [fs EXCEPT ![video_path] = "empty"], ret |-> NoPath,
          raised |-> TRUE, hit |-> FALSE]
  ELSE [files |-> written, ret |-> IF NonEmpty(written, video_path) THEN video_path ELSE NoPath,
        raised |-> FALSE, hit |-> FALSE]

\* save_video(video_url, save_dir) on file system fs when the request ends
\* with net: the file system after, the value returned, whether it raised.
save_video(fs, url, save_dir, net) ==
  LET video_path == VideoPath(url, save_dir)
      opened == [fs EXCEPT ![video_path] = "empty"]              \* open(.., "wb")
      written == [fs EXCEPT ![video_path] =
                    IF net = "empty_body" THEN "empty" ELSE net] \* f.write(..)
  IN
  IF NonEmpty(fs, video_path)
    THEN [files |-> fs, ret |-> video_path, raised |-> FALSE, hit |-> TRUE]
  ELSE IF net = "transport_error"
    THEN [files |-> opened, ret |-> NoPath, raised |-> TRUE, hit |-> FALSE]
  ELSE IF ~NonEmpty(written, video_path)
    THEN [files |-> written, ret |-> NoPath, raised |-> FALSE, hit |-> FALSE]
  ELSE IF net = "undecodable"                                    \* VideoFileClip raises
    THEN [files |-> [written EXCEPT ![video_path] = "absent"],
          ret |-> NoPath, raised |-> FALSE, hit |-> FALSE]
  ELSE IF net = "valid"                                          \* duration > 0 and fps > 0
    THEN [files |-> written, ret |-> video_path, raised |-> FALSE, hit |-> FALSE]
  ELSE [files |-> written, ret |-> NoPath, raised |-> FALSE, hit |-> FALSE]

\* ------------------------------------- _save_video_permissive_ssl (396-444)
\* curl ends with a body, with an empty file, or with a failure (non-zero
\* return code or the subprocess timeout); no media validation follows.
CurlOutcomes == Bodies \cup {"empty_body", "curl_failed"}

_save_video_permissive_ssl(fs, url, save_dir, net) ==
  LET video_path == VideoPath(url, save_dir) IN
  IF NonEmpty(fs, video_path)
    THEN [files |-> fs, ret |-> video_path, raised |-> FALSE, hit |-> TRUE]
  ELSE IF net \in Bodies
    THEN [files |-> [fs EXCEPT ![video_path] = net],
          ret |-> video_path, raised |-> FALSE, hit |-> FALSE]
  ELSE [files |-> [fs EXCEPT ![video_path] = "absent"],           \* os.remove
        ret |-> NoPath, raised |-> FALSE, hit |-> FALSE]

\* ------------------------------------------------ the last remote call
\* op: "none", "search", "submit", "poll", "save"; url and ret are those of a
\* save; net is how the remote side answered.
NoCall == [op |-> "none", url |-> <<>>, net |-> "none", ret |-> NoPath]
Call(op, url, net, ret) == [op |-> op, url |-> url, net |-> net, ret |-> ret]

\* --------------------------------- search_videos_pexels/_pixabay (41-151)
\* A video of a search response: its URL, its duration, and its renditions:
\* one of the exact target resolution, one at least as wide, or none that fits.
Renditions == {"exact", "wider", "none"}
RawVideos == [url : URLs, duration : StockDurations, rendition : Renditions]
\* A response: none (the request failed), one without the list of videos, a
\* well-formed list, or a list with a malformed entry after the videos given.
SearchResponses ==
  {[kind |-> k, videos |-> <<>>] : k \in {"transport_error", "missing_key"}}
    \cup {[kind |-> k, videos |-> v] :
            k \in {"ok", "malformed"}, v \in SeqsUpTo(RawVideos, MaxResults)}

\* Lines 84 and 140: pexels wants w == video_width and h == video_height,
\* pixabay w >= video_width.
Qualifies(provider, v) ==
  IF provider = "pixabay" THEN v.rendition \in {"exact", "wider"}
  ELSE v.rendition = "exact"

\* The loop of lines 74-90 / 129-146 over the videos of the response.
RECURSIVE SearchItems(_, _, _)
SearchItems(provider, videos, minimum_duration) ==
  IF videos = <<>> THEN <<>>
  ELSE LET v == Head(videos)
           rest == SearchItems(provider, Tail(videos), minimum_duration)
       IN IF v.duration < minimum_duration \/ ~Qualifies(provider, v) THEN rest
          ELSE <<[provider |-> provider, url |-> v.url, duration |-> v.duration]>> \o rest

search_videos_partial(provider, response, minimum_duration) ==
  SearchItems(provider, response.videos, minimum_duration)

\* What the search function returns for a response (lines 59-95 / 118-151).
search_videos(provider, response, minimum_duration) ==
  IF response.kind = "ok"
    THEN SearchItems(provider, response.videos, minimum_duration)
  ELSE <<>>

\* Every answer a search call can give its caller: how the request ended and the
\* items returned, per provider and minimum duration.
SearchAnswers ==
  [provider \in {"pexels", "pixabay"}, minimum_duration \in 1..MaxCap |->
     {[kind |-> r.kind, items |-> search_videos(provider, r, minimum_duration)] :
        r \in SearchResponses}]

\* ------------------------------------------------- download_videos (492-565)
MergeItemsAll(pool, found) == pool \o found

\* Lines 525-529: append the items whose URL is not in the pool yet.
RECURSIVE MergeItems(_, _)
MergeItems(pool, found) ==
  IF found = <<>> THEN pool
  ELSE LET item == Head(found) IN
       IF item.url \in {pool[i].url : i \in 1..Len(pool)}
         THEN MergeItems(pool, Tail(found))
       ELSE MergeItems(Append(pool, item), Tail(found))

\* random.shuffle (line 543): any order of the same items.
Shuffles(pool) ==
  {[i \in 1..Len(pool) |-> pool[p[i]]] : p \in Permutations(1..Len(pool))}

PoolOrdersAlwaysShuffled(mode, pool) == Shuffles(pool)

\* Lines 542-543: the orders the pool can be downloaded in.
PoolOrders(mode, pool) == IF mode = "random" THEN Shuffles(pool) ELSE {pool}

CreditUncapped(cap, duration) == duration

\* Lines 343, 555: what one saved clip adds to total_duration.
Credit(cap, duration) == Min(cap, duration)

\* Line 557: the test that ends the download loop of a search provider.
SearchBudgetMet(total, audio) == total > audio

GenBudgetMetStrict(total, audio) == total > audio

\* Lines 335, 470, 485: the test that ends the loops of a generative provider.
GenBudgetMet(total, audio) == total >= audio

KlingInnerBreakAlways(total, audio) == TRUE

\* Line 345: the test that ends the loop over one term's kling items.
KlingInnerBreak(total, audio) == total >= audio

PoolOf(src) == IF src = "pixabay" THEN "pixabay_api_keys" ELSE "pexels_api_keys"
ProviderOf(src) == IF src = "pixabay" THEN "pixabay" ELSE "pexels"

\* Lines 501-516 (and 455-458, the key check of _download_volcengine_videos).
DownloadVideos ==
  /\ pc = "start"
  /\ IF source = "kling" THEN pc' = "kling_term" /\ error' = error
     ELSE IF source = "volcengine"
       THEN IF config.volcengine_api_key = ""
              THEN pc' = "raised" /\ error' = "config"
            ELSE pc' = "volc_term" /\ error' = error
     ELSE pc' = "search" /\ error' = error
  /\ term_idx' = 1
  /\ UNCHANGED <<source, search_terms, audio_duration, max_clip_duration,
                 video_contact_mode, valid_video_items, items, video_url, item_idx,
                 video_paths, total_duration, files, task_status, polls, task_result,
                 last, config, requested_count, calls, video_items, threads, task_term>>

\* One pass of the loop of lines 517-529: the key, the search, the merge.  With
\* trace, what the search returned is kept in video_items.
SearchTermOf(trace) ==
  /\ pc = "search"
  /\ term_idx <= Len(search_terms)
  /\ LET k == get_api_key(PoolOf(source), requested_count) IN
     IF k.raised
       THEN /\ pc' = "raised"
            /\ error' = "config"
            /\ requested_count' = k.count
            /\ UNCHANGED <<term_idx, valid_video_items, last, video_items>>
     ELSE \E answer \in SearchAnswers[ProviderOf(source), max_clip_duration] :
            /\ valid_video_items' = MergeItems(valid_video_items, answer.items)
            /\ video_items' = IF trace THEN answer.items ELSE video_items
            /\ requested_count' = k.count
            /\ term_idx' = term_idx + 1
            /\ last' = Call("search", <<>>, answer.kind, NoPath)
            /\ UNCHANGED <<pc, error>>
  /\ UNCHANGED <<source, search_terms, audio_duration, max_clip_duration,
                 video_contact_mode, items, video_url, item_idx, video_paths,
                 total_duration, files, task_status, polls, task_result, config,
                 calls, threads, task_term>>

SearchTerm == SearchTermOf(FALSE)

\* Lines 531-545: the pool is complete; shuffle it in random mode.
StartDownload ==
  /\ pc = "search"
  /\ term_idx > Len(search_terms)
  /\ valid_video_items' \in PoolOrders(video_contact_mode, valid_video_items)
  /\ item_idx' = 1
  /\ pc' = IF Len(valid_video_items) = 0 THEN "done" ELSE "download"
  /\ UNCHANGED <<source, search_terms, audio_duration, max_clip_duration,
                 video_contact_mode, term_idx, items, video_url, video_paths,
                 total_duration, files, task_status, polls, task_result, error, last,
                 config, requested_count, calls, video_items, threads, task_term>>

\* One pass of the loop of lines 546-563.
DownloadItem ==
  /\ pc = "download"
  /\ item_idx <= Len(valid_video_items)
  /\ \E net \in NetOutcomes :
       LET item == valid_video_items[item_idx]
           r == save_video(files, item.url, CacheDir, net)
           saved == ~r.raised /\ r.ret # NoPath
           total == IF saved
                      THEN total_duration + Credit(max_clip_duration, item.duration)
                    ELSE total_duration
           stop == saved /\ SearchBudgetMet(total, audio_duration)
       IN /\ files' = r.files
          /\ video_paths' = IF saved THEN Append(video_paths, r.ret) ELSE video_paths
          /\ total_duration' = total
          /\ item_idx' = item_idx + 1
          /\ pc' = IF stop \/ item_idx + 1 > Len(valid_video_items)
                     THEN "done" ELSE "download"
          /\ last' = Call("save", item.url, IF r.hit THEN "cache_hit" ELSE net, r.ret)
  /\ UNCHANGED <<source, search_terms, audio_duration, max_clip_duration,
                 video_contact_mode, term_idx, valid_video_items, items, video_url,
                 task_status, polls, task_result, error, config, requested_count,
                 calls, video_items, threads, task_term>>

\* ------------------------------------------- generate_videos_kling (224-314)
\* A video of a "succeed" answer: its URL and its raw duration.
KlingVideos == [url : {Ua, Ub}, duration : KlingRawDurations]
KlingSubmitOutcomes == {"error", "bad_code", "ok"}
\* What one status fetch brings: a transport error, or a task_status: one that
\* is neither "succeed" nor "failed", "failed", or "succeed".
PollAnswers == {"transport_error", "pending", "failed", "succeed"}
\* The videos a "succeed" answer can carry.
KlingResults == SeqsUpTo(KlingVideos, MaxAssets)

\* Line 305: int(float(v.get("duration", duration))), duration being "5".
ItemDuration(raw) == IF raw = Absent THEN KlingDefaultDuration ELSE raw \div 10

\* Lines 299-306: one item per video of the task result.
KlingItems(videos) ==
  [i \in 1..Len(videos) |->
     [provider |-> "kling", url |-> videos[i].url,
      duration |-> ItemDuration(videos[i].duration)]]

StatusAfterIgnoringFailed(kind, i, cap) ==
  IF kind = "succeed" THEN "succeeded"
  ELSE IF i >= cap THEN "timed_out"
  ELSE "pending"

\* The status of the task after its i-th status fetch answered kind, for a loop
\* of cap passes (lines 278-314, 372-393).
StatusAfter(kind, i, cap) ==
  IF kind = "succeed" THEN "succeeded"
  ELSE IF kind = "failed" THEN "failed"
  ELSE IF i >= cap THEN "timed_out"
  ELSE "pending"

Terminal == {"succeeded", "failed", "timed_out"}

\* Head of the loop of lines 334-338 and the submission of lines 230-276.
KlingTerm ==
  /\ pc = "kling_term"
  /\ IF term_idx > Len(search_terms) \/ GenBudgetMet(total_duration, audio_duration)
       THEN /\ pc' = "done"
            /\ UNCHANGED <<term_idx, items, item_idx, task_status, polls, error, last,
                           task_term, task_result>>
     ELSE IF config.kling_access_key = "" \/ config.kling_secret_key = ""
       THEN /\ pc' = "raised"
            /\ error' = "config"
            /\ UNCHANGED <<term_idx, items, item_idx, task_status, polls, last, task_term,
                           task_result>>
     ELSE \E sub \in KlingSubmitOutcomes :
            /\ last' = Call("submit", <<>>, sub, NoPath)
            /\ items' = <<>>
            /\ item_idx' = 1
            /\ polls' = 0
            /\ task_result' = <<>>
            /\ error' = error
            /\ IF sub = "ok"
                 THEN /\ task_status' = "pending"
                      /\ task_term' = term_idx
                      /\ pc' = "kling_poll"
                      /\ term_idx' = term_idx
               ELSE /\ task_status' = "none"
                    /\ task_term' = task_term
                    /\ pc' = "kling_term"
                    /\ term_idx' = term_idx + 1
  /\ UNCHANGED <<source, search_terms, audio_duration, max_clip_duration,
                 video_contact_mode, valid_video_items, video_url, video_paths,
                 total_duration, files, config, requested_count, calls, video_items, threads>>

\* One pass of the loop of lines 278-298 with the tests of lines 298 and 309,
\* and line 313 after the last pass.
KlingPoll ==
  /\ pc = "kling_poll"
  /\ \E ans \in PollAnswers :
       LET kind == IF ans = "transport_error" THEN "pending" ELSE ans
           status == StatusAfter(kind, polls + 1, KlingPollCap)
       IN /\ polls' = polls + 1
          /\ task_status' = status
          /\ pc' = IF status = "pending" THEN "kling_poll" ELSE "kling_return"
          /\ last' = Call("poll", <<>>, ans, NoPath)
  /\ UNCHANGED <<source, search_terms, audio_duration, max_clip_duration,
                 video_contact_mode, term_idx, valid_video_items, items, video_url,
                 item_idx, video_paths, total_duration, files, task_result, error, config,
                 requested_count, calls, video_items, threads, task_term>>

\* The end of generate_videos_kling: the videos of a "succeed" answer are read
\* and turned into items (lines 299-308), or nothing is returned (311, 314); the
\* caller goes on at line 339.
KlingReturn ==
  /\ pc = "kling_return"
  /\ \E videos \in (IF task_status = "succeeded" THEN KlingResults ELSE {<<>>}) :
       LET got == KlingItems(videos) IN
       /\ task_result' = videos
       /\ items' = got
       /\ item_idx' = 1
       /\ IF got = <<>>
            THEN pc' = "kling_term" /\ term_idx' = term_idx + 1
          ELSE pc' = "kling_fetch" /\ term_idx' = term_idx
  /\ polls' = 0
  /\ UNCHANGED <<source, search_terms, audio_duration, max_clip_duration,
                 video_contact_mode, valid_video_items, video_url, video_paths,
                 total_duration, files, task_status, error, last, config,
                 requested_count, calls, video_items, threads, task_term>>

\* One pass of the loop of lines 339-346.
KlingFetch ==
  /\ pc = "kling_fetch"
  /\ item_idx <= Len(items)
  /\ \E net \in NetOutcomes :
       LET item == items[item_idx]
           r == save_video(files, item.url, CacheDir, net)
           saved == ~r.raised /\ r.ret # NoPath
           total == IF saved
                      THEN total_duration + Credit(max_clip_duration, item.duration)
                    ELSE total_duration
       IN /\ files' = r.files
          /\ last' = Call("save", item.url, IF r.hit THEN "cache_hit" ELSE net, r.ret)
          /\ IF r.raised
               THEN /\ pc' = "raised"
                    /\ error' = "save_video"
                    /\ UNCHANGED <<video_paths, total_duration, item_idx, term_idx>>
             ELSE /\ video_paths' = IF saved THEN Append(video_paths, r.ret) ELSE video_paths
                  /\ total_duration' = total
                  /\ item_idx' = item_idx + 1
                  /\ error' = error
                  /\ IF KlingInnerBreak(total, audio_duration) \/ item_idx + 1 > Len(items)
                       THEN pc' = "kling_term" /\ term_idx' = term_idx + 1
                     ELSE pc' = "kling_fetch" /\ term_idx' = term_idx
  /\ UNCHANGED <<source, search_terms, audio_duration, max_clip_duration,
                 video_contact_mode, valid_video_items, items, video_url, task_status,
                 polls, task_result, config, requested_count, calls, video_items, threads, task_term>>

\* -------------------------------------- _generate_volcengine_video (352-393)
VolcSubmitOutcomes == {"error", "ok"}
\* Where a "succeeded" answer carries its URL: content.video_url,
\* content.videos[0].url, or neither (lines 379-385).
VolcShapes == {"video_url", "videos0"}
VolcResults ==
  {[shape |-> sh, url |-> u] : sh \in VolcShapes, u \in URLs}
    \cup {[shape |-> "neither", url |-> <<>>]}

\* Lines 379-385.
VolcResultUrl(ans) == IF ans.shape = "neither" THEN DiagText ELSE ans.url

\* Head of the loop of lines 469-478 and the submission of lines 365-370.
VolcTerm ==
  /\ pc = "volc_term"
  /\ IF term_idx > Len(search_terms) \/ GenBudgetMet(total_duration, audio_duration)
       THEN /\ pc' = "done"
            /\ UNCHANGED <<video_url, task_status, polls, error, last, task_term,
                           task_result>>
     ELSE \E sub \in VolcSubmitOutcomes :
            /\ last' = Call("submit", <<>>, sub, NoPath)
            /\ video_url' = <<>>
            /\ polls' = 0
            /\ task_result' = <<>>
            /\ IF sub = "ok"
                 THEN /\ task_status' = "pending"
                      /\ task_term' = term_idx
                      /\ pc' = "volc_poll"
                      /\ error' = error
               ELSE /\ task_status' = "none"
                    /\ task_term' = task_term
                    /\ pc' = "raised"
                    /\ error' = "submit"
  /\ UNCHANGED <<source, search_terms, audio_duration, max_clip_duration,
                 video_contact_mode, term_idx, valid_video_items, items, item_idx,
                 video_paths, total_duration, files, config, requested_count, calls, video_items, threads>>

\* One pass of the loop of lines 372-390, and line 392 after the last one.
VolcPoll ==
  /\ pc = "volc_poll"
  /\ \E ans \in PollAnswers :
       /\ last' = Call("poll", <<>>, ans, NoPath)
       /\ polls' = polls + 1
       /\ IF ans = "transport_error"
            THEN /\ pc' = "raised"
                 /\ error' = "poll"
                 /\ task_status' = task_status
          ELSE LET status == StatusAfter(ans, polls + 1, VolcPollCap) IN
               /\ task_status' = status
               /\ pc' = IF status = "pending" THEN "volc_poll" ELSE "volc_return"
               /\ error' = error
  /\ UNCHANGED <<source, search_terms, audio_duration, max_clip_duration,
                 video_contact_mode, term_idx, valid_video_items, items, video_url,
                 item_idx, video_paths, total_duration, files, task_result, config,
                 requested_count,
                 calls, video_items, threads, task_term>>

\* The end of _generate_volcengine_video: the URL of a "succeeded" answer is
\* read and returned (lines 378-387), or "" is (390, 393); the caller goes on
\* at line 479.
VolcReturn ==
  /\ pc = "volc_return"
  /\ IF task_status = "succeeded"
       THEN \E ans \in VolcResults :
              /\ task_result' = <<[url |-> ans.url, duration |-> Absent]>>
              /\ video_url' = VolcResultUrl(ans)
     ELSE task_result' = <<>> /\ video_url' = <<>>
  /\ polls' = 0
  /\ pc' = "volc_fetch"
  /\ UNCHANGED <<source, search_terms, audio_duration, max_clip_duration,
                 video_contact_mode, term_idx, valid_video_items, items, item_idx,
                 video_paths, total_duration, files, task_status, error, last, config,
                 requested_count, calls, video_items, threads, task_term>>

\* curl cannot fetch the diagnostic text: it is no URL.
CurlOutcomesFor(url) == IF url = DiagText THEN {"curl_failed"} ELSE CurlOutcomes

\* Lines 479-486.
VolcFetch ==
  /\ pc = "volc_fetch"
  /\ IF video_url = <<>>
       THEN /\ UNCHANGED <<files, video_paths, total_duration, last>>
            /\ pc' = IF GenBudgetMet(total_duration, audio_duration)
                       THEN "done" ELSE "volc_term"
     ELSE \E net \in CurlOutcomesFor(video_url) :
            LET r == _save_video_permissive_ssl(files, video_url, CacheDir, net)
                saved == r.ret # NoPath
                total == IF saved
                           THEN total_duration + Min(max_clip_duration, VolcClipSeconds)
                         ELSE total_duration
            IN /\ files' = r.files
               /\ last' = Call("save", video_url, IF r.hit THEN "cache_hit" ELSE net, r.ret)
               /\ video_paths' = IF saved THEN Append(video_paths, r.ret) ELSE video_paths
               /\ total_duration' = total
               /\ pc' = IF GenBudgetMet(total, audio_duration) THEN "done" ELSE "volc_term"
  /\ term_idx' = term_idx + 1
  /\ UNCHANGED <<source, search_terms, audio_duration, max_clip_duration,
                 video_contact_mode, valid_video_items, items, video_url, item_idx,
                 task_status, polls, task_result, error, config, requested_count,
                 calls, video_items, threads, task_term>>

\* ------------------------------------------------------- the run as a whole
Set == "set"
\* The configurations a run of source src is followed under: the credentials
\* of src vary, the others are set.
RunConfigs(src) ==
  LET base == [pexels_api_keys |-> [kind |-> "list", keys |-> KeyList(2)],
               pixabay_api_keys |-> [kind |-> "list", keys |-> KeyList(2)],
               kling_access_key |-> Set, kling_secret_key |-> Set,
               volcengine_api_key |-> Set]
  IN IF src = "kling"
       THEN {[base EXCEPT !.kling_access_key = a, !.kling_secret_key = b] :
               a \in {"", Set}, b \in {"", Set}}
     ELSE IF src = "volcengine"
       THEN {[base EXCEPT !.volcengine_api_key = a] : a \in {"", Set}}
     ELSE {[base EXCEPT ![PoolOf(src)] = v] :
             v \in {[kind |-> "unset", keys |-> <<>>],
                    [kind |-> "list", keys |-> KeyList(2)]}}

Init ==
  /\ source \in Sources
  /\ search_terms \in {[i \in 1..n |-> i] : n \in 0..MaxTerms}
  /\ audio_duration \in 0..MaxAudio
  /\ max_clip_duration \in 1..MaxCap
  /\ video_contact_mode \in
       (IF source \in SearchSources THEN ConcatModes ELSE {"random"})
  /\ config \in RunConfigs(source)
  /\ requested_count = 0
  /\ calls = <<>>
  /\ pc = "start"
  /\ term_idx = 1
  /\ valid_video_items = <<>>
  /\ items = <<>>
  /\ video_url = <<>>
  /\ item_idx = 1
  /\ video_paths = <<>>
  /\ total_duration = 0
  /\ files = [p \in Paths |-> "absent"]
  /\ task_status = "none"
  /\ polls = 0
  /\ task_result = <<>>
  /\ task_term = 0
  /\ error = "none"
  /\ last = NoCall
  /\ video_items = <<>>
  /\ threads = [t \in Threads |-> IdleThread]

Next ==
  \/ DownloadVideos
  \/ SearchTerm
  \/ StartDownload
  \/ DownloadItem
  \/ KlingTerm
  \/ KlingPoll
  \/ KlingReturn
  \/ KlingFetch
  \/ VolcTerm
  \/ VolcPoll
  \/ VolcReturn
  \/ VolcFetch

Spec == Init /\ [][Next]_vars

\* ------------------------------------------- get_api_key called on its own
\* The callers of get_api_key in one process: any pool, in any order.
GetApiKeyCall(cfg_key) ==
  /\ pc = "idle"
  /\ Len(calls) < MaxCalls
  /\ LET k == get_api_key(cfg_key, requested_count) IN
       /\ requested_count' = k.count
       /\ calls' = Append(calls, [cfg_key |-> cfg_key, raised |-> k.raised, key |-> k.key])
  /\ UNCHANGED <<runVars, config, video_items, threads>>

InitKeys ==
  /\ config \in {[pexels_api_keys |-> v, pixabay_api_keys |-> w,
                  kling_access_key |-> Set, kling_secret_key |-> Set,
                  volcengine_api_key |-> Set] : v \in PoolValues, w \in PoolValues}
  /\ requested_count = 0
  /\ calls = <<>>
  /\ pc = "idle"
  /\ source = "pexels"
  /\ search_terms = <<>>
  /\ audio_duration = 0
  /\ max_clip_duration = 1
  /\ video_contact_mode = "random"
  /\ term_idx = 1
  /\ valid_video_items = <<>>
  /\ items = <<>>
  /\ video_url = <<>>
  /\ item_idx = 1
  /\ video_paths = <<>>
  /\ total_duration = 0
  /\ files = [p \in Paths |-> "absent"]
  /\ task_status = "none"
  /\ polls = 0
  /\ task_result = <<>>
  /\ task_term = 0
  /\ error = "none"
  /\ last = NoCall
  /\ video_items = <<>>
  /\ threads = [t \in Threads |-> IdleThread]

NextKeys == \E cfg_key \in PoolNames : GetApiKeyCall(cfg_key)

SpecKeys == InitKeys /\ [][NextKeys]_vars

\* ------------------------------- get_api_key called by several threads
\* Lines 25-34: the pool is read; an unset or empty pool raises and a single
\* string is returned, both without touching the counter.
ThreadEnter(t, cfg_key) ==
  /\ pc = "idle"
  /\ threads[t].pc = "idle"
  /\ threads[t].done < MaxThreadCalls
  /\ LET api_keys == config[cfg_key]
         me == [threads[t] EXCEPT !.cfg_key = cfg_key]
     IN threads' = [threads EXCEPT ![t] =
          IF Len(api_keys.keys) = 0
            THEN [me EXCEPT !.key = NoKey, !.done = @ + 1]
          ELSE IF api_keys.kind = "str"
            THEN [me EXCEPT !.key = api_keys.keys[1], !.done = @ + 1]
          ELSE [me EXCEPT !.pc = "load"]]
  /\ UNCHANGED <<runVars, config, requested_count, calls, video_items>>

\* Line 37, requested_count += 1: the read of the global.
ThreadLoad(t) ==
  /\ threads[t].pc = "load"
  /\ threads' = [threads EXCEPT ![t].loaded = requested_count, ![t].pc = "store"]
  /\ UNCHANGED <<runVars, config, requested_count, calls, video_items>>

\* Line 37, requested_count += 1: the write of the value read plus one.
ThreadStore(t) ==
  /\ threads[t].pc = "store"
  /\ requested_count' = threads[t].loaded + 1
  /\ threads' = [threads EXCEPT ![t].own = threads[t].loaded + 1, ![t].pc = "index"]
  /\ UNCHANGED <<runVars, config, calls, video_items>>

\* Line 38: the global is read again to index the pool, and the key returned.
ThreadIndex(t) ==
  /\ threads[t].pc = "index"
  /\ LET keys == config[threads[t].cfg_key].keys IN
     threads' = [threads EXCEPT ![t] =
       [@ EXCEPT !.used = requested_count,
                 !.key = keys[(requested_count % Len(keys)) + 1],
                 !.done = @ + 1, !.counted = @ + 1, !.pc = "idle"]]
  /\ UNCHANGED <<runVars, config, requested_count, calls, video_items>>

InitThreads == InitKeys

NextThreads ==
  \E t \in Threads :
    \/ \E cfg_key \in PoolNames : ThreadEnter(t, cfg_key)
    \/ ThreadLoad(t)
    \/ ThreadStore(t)
    \/ ThreadIndex(t)

SpecThreads == InitThreads /\ [][NextThreads]_vars

\* ------------------ the building of the pool, with each term's results kept
SearchTermTraced == SearchTermOf(TRUE)

\* Runs of the default search provider with keys configured, as many terms as can be
\* and every clip of a response long enough, up to the point where the pool is
\* handed to the download loop.
InitPool ==
  /\ Init
  /\ source = "pexels"
  /\ Len(search_terms) = MaxTerms
  /\ Len(config[PoolOf(source)].keys) > 0
  /\ max_clip_duration = 1
  /\ audio_duration = MaxAudio

NextPool ==
  \/ DownloadVideos
  \/ SearchTermTraced
  \/ StartDownload

SpecPool == InitPool /\ [][NextPool]_vars

\* ================================================================== claims
\* Kinds of step, told by where the run is before and after.
PollStep == pc \in {"kling_poll", "volc_poll"}
FetchStep ==
  \/ pc \in {"download", "kling_fetch"}
  \/ pc = "volc_fetch" /\ video_url # <<>>
SubmitStep ==
  /\ pc \in {"kling_term", "volc_term"}
  /\ pc' # "done"
  /\ error' # "config"
ReturnStep == pc \in {"kling_return", "volc_return"}
PollCap(src) == IF src = "kling" THEN KlingPollCap ELSE VolcPollCap

\* C1: in a run of a search provider, once the credited duration of the saved
\* clips has reached audio_duration, no further candidate is fetched (the clip
\* that reaches or crosses the target is the last one, also on equality).
C1_SearchStopsAtTarget ==
  [][(/\ source \in SearchSources
      /\ video_paths # <<>>
      /\ total_duration >= audio_duration) => ~FetchStep]_vars

\* C2: in a run of a generative provider, once total_duration >= audio_duration
\* no generation task is submitted and no candidate is fetched, between terms
\* and within one term; with audio_duration <= 0 nothing is submitted at all.
C2_GenerativeStopsAtTarget ==
  [][(source \in GenerativeSources /\ total_duration >= audio_duration)
       => (~SubmitStep /\ ~FetchStep)]_vars

\* C2 happens: a kling run ended on a met budget with an item of the term and
\* a term of the run left untouched.
C2_Witness ==
  /\ source = "kling"
  /\ pc = "done"
  /\ audio_duration > 0
  /\ total_duration >= audio_duration
  /\ item_idx <= Len(items)
  /\ term_idx <= Len(search_terms)

\* C3: a run that has returned with total_duration < audio_duration has
\* attempted every candidate of the pool (search providers), or every term and
\* every candidate each term produced (generative providers).
C3_NeverStopsEarly ==
  (pc \in {"done", "kling_term"} /\ total_duration < audio_duration) =>
    IF source \in SearchSources
      THEN item_idx > Len(valid_video_items)
    ELSE /\ pc = "done" => term_idx > Len(search_terms)
         /\ source = "kling" => item_idx > Len(items)

\* C3 happens: a kling run returned short of the budget after two terms and at
\* least one failed download.
C3_Witness ==
  /\ source = "kling"
  /\ pc = "done"
  /\ total_duration < audio_duration
  /\ Len(search_terms) = MaxTerms
  /\ Len(items) = 2
  /\ Len(video_paths) = 1

\* C4: a transport failure of one candidate's download never makes the run
\* raise; the result list and the accumulated duration stay as they were.
C4_DownloadFailureContained ==
  [][(FetchStep /\ last'.op = "save" /\ last'.net \in {"transport_error", "curl_failed"})
       => (/\ pc' # "raised"
           /\ video_paths' = video_paths
           /\ total_duration' = total_duration)]_vars

\* C5: after a save_video that downloaded a body failing validation and
\* returned empty, no non-empty file is left at the cache path of that URL.
C5_InvalidFileDeleted ==
  (/\ source # "volcengine"
   /\ last.op = "save"
   /\ last.ret = NoPath
   /\ last.net \in {"undecodable", "zero_duration"})
    => ~NonEmpty(files, VideoPath(last.url, CacheDir))

\* C6: a transport failure of a status fetch is not terminal: the run does not
\* raise and the task stays pending (or times out when that fetch was the last
\* the poll cap allows).
C6_PollFailureNotTerminal ==
  [][(PollStep /\ last'.op = "poll" /\ last'.net = "transport_error")
       => (pc' # "raised" /\ task_status' \in {"pending", "timed_out"})]_vars

\* C7: when the work for a term ends without a result (the submission errors
\* or is refused, the task fails or times out), the run does not raise and
\* goes on with the remaining terms.
C7_TermFailureContained ==
  [][(\/ SubmitStep /\ last'.op = "submit" /\ last'.net \in {"error", "bad_code"}
      \/ PollStep /\ task_status' \in {"failed", "timed_out"})
       => (pc' # "raised" /\ items' = <<>> /\ video_url' = <<>>)]_vars

\* C8: a task is fetched at most the poll cap of its provider times, and it is
\* never left pending: a task that is pending is still being polled, below the
\* cap.
C8_PollingEndsWithinCap ==
  /\ polls <= PollCap(source)
  /\ task_status = "pending" => (PollStep /\ polls < PollCap(source))

\* C9: succeeded, failed and timed_out are terminal.  After a status fetch that
\* answered succeed or failed no status fetch follows; a terminal task keeps
\* its status until a task is submitted for a later term; and the candidates
\* handed to the caller are one per video of the succeeded task.
C9_TerminalIsFinal ==
  [][/\ (last.op = "poll" /\ last.net \in {"succeed", "failed"}) => ~PollStep
     /\ task_status \in Terminal =>
          /\ ~PollStep
          /\ polls' \in {polls, 0}
          /\ task_status' = task_status \/ (SubmitStep /\ term_idx > task_term)
     /\ (ReturnStep /\ task_status = "succeeded") =>
          IF source = "kling"
            THEN /\ Len(items') = Len(task_result')
                 /\ \A i \in 1..Len(items') : items'[i].url = task_result'[i].url
          ELSE Len(task_result') = 1 /\ video_url' # <<>>]_vars

\* C9 happens: eleven fetches left the task pending, the twelfth answered
\* succeed with one video.
C9_Witness ==
  /\ source = "kling"
  /\ task_status = "succeeded"
  /\ polls = 12
  /\ last = Call("poll", <<>>, "succeed", NoPath)

\* C10: a pool of one key always yields that key; for a pool of N > 1 keys, N
\* calls in a row return every key of the pool, and the key returned N calls
\* later is the same again.
C10_Rotation ==
  \A i \in 1..Len(calls) :
    LET p == calls[i].cfg_key
        n == Len(config[p].keys)
        InARow(m) == i + m <= Len(calls) /\ \A j \in i..(i + m) : calls[j].cfg_key = p
    IN /\ n = 1 => calls[i].key = config[p].keys[1]
       /\ (n > 1 /\ InARow(n - 1)) =>
            {calls[j].key : j \in i..(i + n - 1)} = Range(config[p].keys)
       /\ (n > 1 /\ InARow(n)) => calls[i + n].key = calls[i].key

\* C10 happens: a pool of three keys was called four times in a row.
C10_Witness ==
  \E p \in PoolNames :
    /\ Len(config[p].keys) = 3
    /\ Len(calls) >= 4
    /\ \A j \in 1..4 : calls[j].cfg_key = p

\* C11: get_api_key is safe under concurrent calls: once every thread is back
\* from its calls, the counter has advanced by one per completed call that
\* rotates (no lost update), and every such call returned the key indexed by
\* the counter value its own increment produced.
RECURSIVE Counted(_)
Counted(n) == IF n = 0 THEN 0 ELSE threads[n].counted + Counted(n - 1)
C11_AtomicRotation ==
  /\ (\A t \in Threads : threads[t].pc = "idle") => requested_count = Counted(MaxThreads)
  /\ \A t \in Threads :
       (threads[t].pc = "idle" /\ threads[t].counted > 0) => threads[t].used = threads[t].own

\* The URL the fetch step at hand is about.
FetchUrl ==
  IF pc = "download" THEN valid_video_items[item_idx].url
  ELSE IF pc = "kling_fetch" THEN items[item_idx].url
  ELSE video_url

\* C12: a fetch whose destination file exists and is non-empty returns that
\* path at once: no request is made and the file system is left as it was; and
\* a fetch that returned a path leaves a non-empty file at the path of its URL,
\* so that fetching the same URL again is such a cache hit (same path, no
\* second download), in save_video and in _save_video_permissive_ssl.
C12_CacheHit ==
  [][/\ (FetchStep /\ NonEmpty(files, VideoPath(FetchUrl, CacheDir))) =>
          /\ files' = files
          /\ last' = Call("save", FetchUrl, "cache_hit", VideoPath(FetchUrl, CacheDir))
          /\ video_paths' = Append(video_paths, VideoPath(FetchUrl, CacheDir))
     /\ (FetchStep /\ last'.op = "save" /\ last'.ret # NoPath) =>
          /\ last'.ret = VideoPath(FetchUrl, CacheDir)
          /\ NonEmpty(files', last'.ret)]_vars

\* C12 happens: a volcengine run fetched the same URL for two terms; the
\* second fetch was a cache hit returning the path of the first.
C12_Witness ==
  /\ source = "volcengine"
  /\ last.op = "save"
  /\ last.net = "cache_hit"
  /\ Len(video_paths) = 2
  /\ video_paths[1] = video_paths[2]

\* URLs with none, one or several "?", with and without text before the first.
QueryURLs ==
  URLs \cup {<<"a", "?", "y">>, <<"a", "?", "x", "?", "y">>, <<"a", "?">>,
             <<"b", "?", "x">>, <<"?", "x">>, <<"a", "b">>, <<>>}
IsQuery(q) == q = <<>> \/ q[1] = "?"
\* u and v are the same text before their query strings.
SameButQuery(u, v) ==
  \E n \in 0..Min(Len(u), Len(v)) :
    /\ SubSeq(u, 1, n) = SubSeq(v, 1, n)
    /\ "?" \notin Range(SubSeq(u, 1, n))
    /\ IsQuery(SubSeq(u, n + 1, Len(u)))
    /\ IsQuery(SubSeq(v, n + 1, Len(v)))

\* The pairs of URLs that differ only in their query string.
QueryTwins == {pair \in QueryURLs \X QueryURLs : SameButQuery(pair[1], pair[2])}
\* The cache key and the file path are the same for every such pair.
TwinsShareAPath ==
  \A pair \in QueryTwins :
    /\ Md5(SplitQuery(pair[1])) = Md5(SplitQuery(pair[2]))
    /\ VideoPath(pair[1], CacheDir) = VideoPath(pair[2], CacheDir)
\* The paths of the URLs that differ from u only in the query string.
TwinPaths ==
  [u \in QueryURLs |-> {VideoPath(pair[1], CacheDir) : pair \in {q \in QueryTwins : q[2] = u}}]

\* C13: two URLs that differ only in their query string have the same cache
\* key and the same file path in one directory; so a fetch that returns a path
\* returns the path of every URL that differs from its own only in the query.
C13_QueryIgnored ==
  /\ TwinsShareAPath
  /\ (last.op = "save" /\ last.ret # NoPath) => TwinPaths[last.url] = {last.ret}

\* C13 happens: the URL with a query string was fetched after the same URL
\* without one, and came back from the cache under the same path.
C13_Witness ==
  /\ last.op = "save"
  /\ last.url = Uax
  /\ last.net = "cache_hit"
  /\ last.ret = VideoPath(Ua, CacheDir)
  /\ Len(video_paths) = 2

\* The credentials of the selected provider are missing or empty.
CredentialsMissing ==
  IF source = "kling"
    THEN config.kling_access_key = "" \/ config.kling_secret_key = ""
  ELSE IF source = "volcengine" THEN config.volcengine_api_key = ""
  ELSE Len(config[PoolOf(source)].keys) = 0

\* Nothing was sent to a provider, no file was written, no term was completed
\* and the rotation counter is where it started.
NothingDone ==
  /\ last = NoCall
  /\ \A p \in Paths : files[p] = "absent"
  /\ video_paths = <<>>
  /\ term_idx = 1
  /\ requested_count = 0

\* C14 as stated: a run whose provider has missing or empty credentials fails
\* with a configuration error (it never returns a result), and it has sent no
\* request, written no file and left the rotation counter unchanged.
C14_MissingCredentialsFail ==
  CredentialsMissing =>
    /\ pc # "done"
    /\ pc = "raised" => error = "config"
    /\ NothingDone

\* C14 amended: a run whose provider has missing or empty credentials sends no
\* request, writes no file and leaves the rotation counter unchanged; it
\* raises a configuration error, and nothing else, at the first term it has to
\* process, and returns (an empty list) only when it has nothing to process:
\* no search term, or for kling a target that is already met.  A volcengine
\* run raises in every case.
C14_MissingCredentialsContained ==
  CredentialsMissing =>
    /\ NothingDone
    /\ pc \in {"start", "search", "kling_term", "raised", "done"}
    /\ pc = "raised" => error = "config"
    /\ pc = "done" =>
         /\ source # "volcengine"
         /\ search_terms = <<>> \/ (source = "kling" /\ audio_duration <= 0)

\* C14 happens: the get_api_key call of the first search raised for an unset
\* pool, with terms left to search.
C14_Witness ==
  /\ source \in SearchSources
  /\ CredentialsMissing
  /\ pc = "raised"
  /\ error = "config"
  /\ Len(search_terms) = MaxTerms


\* The places of d whose URL occurs at no earlier place of d.
FirstIdx(d) == {i \in 1..Len(d) : \A j \in 1..(i - 1) : d[j].url # d[i].url}
\* The k-th place among the places idx.
KthOf(idx, k) == CHOOSE i \in idx : Cardinality({j \in idx : j < i}) = k - 1
\* d without the items whose URL occurred earlier in d.
FirstOccurrences(d) ==
  LET idx == FirstIdx(d) IN [k \in 1..Cardinality(idx) |-> d[KthOf(idx, k)]]

\* C15: the pool of a search-provider run never holds two candidates with the
\* same URL; the search of a term turns the pool into the pool followed by the
\* results of that search, in provider order, without every item whose URL
\* occurred before (in the pool or earlier in the results); and handing the
\* pool to the download loop keeps its items (and their order, unless shuffled).
C15_PoolDeduplicated ==
  [][/\ \A i, j \in 1..Len(valid_video_items') :
          i # j => valid_video_items'[i].url # valid_video_items'[j].url
     /\ (pc = "search" /\ term_idx' = term_idx + 1) =>
          valid_video_items' = FirstOccurrences(valid_video_items \o video_items')
     /\ (pc = "search" /\ pc' # "search") =>
          /\ Range(valid_video_items') = Range(valid_video_items)
          /\ Len(valid_video_items') = Len(valid_video_items)
          /\ video_contact_mode # "random" => valid_video_items' = valid_video_items]_vars

\* C15 happens: the search of the second term returned a URL the pool held
\* already, with another duration, and a new one; the pool kept the first.
C15_Witness ==
  /\ pc = "search"
  /\ term_idx = 3
  /\ Len(video_items) = 2
  /\ Len(valid_video_items) = 3
  /\ video_items[1].url = valid_video_items[1].url
  /\ video_items[1].duration # valid_video_items[1].duration

\* C16: a candidate whose download fails validation (the body does not open as
\* media, or has no positive duration and frame rate) contributes nothing: the
\* fetch step leaves video_paths and total_duration as they were, the run does
\* not raise, and it goes on with the next candidate.
C16_InvalidContributesNothing ==
  [][(/\ pc \in {"download", "kling_fetch"}
      /\ last'.op = "save"
      /\ last'.net \in {"undecodable", "zero_duration"})
       => (/\ last'.ret = NoPath
           /\ video_paths' = video_paths
           /\ total_duration' = total_duration
           /\ pc' # "raised"
           /\ error' = error
           /\ item_idx' = item_idx + 1
           /\ IF pc = "download"
                THEN pc' = (IF item_idx' <= Len(valid_video_items) THEN "download" ELSE "done")
              ELSE IF item_idx' <= Len(items) /\ total_duration < audio_duration
                THEN pc' = "kling_fetch"
              ELSE pc' = "kling_term")]_vars

\* C16 happens: the first candidate of a pool failed validation, the second
\* was fetched and saved.
C16_Witness ==
  /\ source \in SearchSources
  /\ item_idx = 3
  /\ Len(video_paths) = 1
  /\ files[VideoPath(valid_video_items[1].url, CacheDir)] \in {"zero_duration", "absent"}
  /\ video_paths[1] = VideoPath(valid_video_items[2].url, CacheDir)

\* C17: total_duration never decreases; it changes only in a step that appends
\* exactly one path to video_paths, by at most max_clip_duration; and it is
\* never above max_clip_duration times the number of paths obtained.
C17_CreditBounded ==
  [][/\ total_duration' >= total_duration
     /\ total_duration' # total_duration =>
          /\ Len(video_paths') = Len(video_paths) + 1
          /\ SubSeq(video_paths', 1, Len(video_paths)) = video_paths
          /\ total_duration' - total_duration <= max_clip_duration
     /\ total_duration <= max_clip_duration * Len(video_paths)
     /\ total_duration' <= max_clip_duration * Len(video_paths')]_vars

\* C17 happens: two kling clips shorter than the cap and longer than the cap
\* were saved: the total is above one cap and below two.
C17_Witness ==
  /\ source = "kling"
  /\ Len(video_paths) = 2
  /\ total_duration > max_clip_duration
  /\ total_duration < 2 * max_clip_duration

\* C18: the rotation is per pool and a call returns pool[counter % len(pool)]
\* before incrementing: the k-th call of get_api_key for a pool of N > 1 keys
\* returns pool[(k-1) mod N], whatever calls were made for other pools.
C18_PerPoolRotation ==
  \A i \in 1..Len(calls) :
    LET p == calls[i].cfg_key
        n == Len(config[p].keys)
        k == Cardinality({j \in 1..i : calls[j].cfg_key = p})
    IN (config[p].kind = "list" /\ n > 1) =>
         calls[i].key = config[p].keys[((k - 1) % n) + 1]

\* C19: a search that ends in a transport error or in a malformed response
\* (no list of videos, or a malformed entry in it) does not raise: it returns
\* no candidate, the pool stays as it was and the run goes on to the next term.
C19_SearchFailureContained ==
  [][(/\ pc = "search"
      /\ term_idx <= Len(search_terms)
      /\ last'.op = "search"
      /\ last'.net \in {"transport_error", "missing_key", "malformed"})
       => (/\ pc' = "search"
           /\ error' = "none"
           /\ valid_video_items' = valid_video_items
           /\ term_idx' = term_idx + 1)]_vars

\* C19 happens: the search of the first term found a clip, that of the second
\* got a malformed response, and the pool is still the one clip.
C19_Witness ==
  /\ pc = "search"
  /\ term_idx = 3
  /\ last.op = "search"
  /\ last.net = "malformed"
  /\ Len(valid_video_items) = 1

\* a is b with some of its entries left out.
RECURSIVE IsSubSeqOf(_, _)
IsSubSeqOf(a, b) ==
  IF a = <<>> THEN TRUE
  ELSE IF b = <<>> THEN FALSE
  ELSE IF Head(a) = Head(b) /\ IsSubSeqOf(Tail(a), Tail(b)) THEN TRUE
  ELSE IsSubSeqOf(a, Tail(b))

\* The paths of the candidates fetched so far, in the order of the pool.
FetchedPaths ==
  [i \in 1..(item_idx - 1) |-> VideoPath(valid_video_items[i].url, CacheDir)]

\* C20: in a search-provider run the terms are searched in the given order,
\* each search adding to the end of the pool; unless the mode is random the
\* download loop gets the pool in that order; candidates are fetched in the
\* order of the pool, one after the other; and video_paths holds, in fetch
\* order, the paths of those that were saved.
C20_FetchOrder ==
  [][/\ (pc = "search" /\ term_idx <= Len(search_terms) /\ pc' = "search") =>
          /\ term_idx' = term_idx + 1
          /\ Len(valid_video_items') >= Len(valid_video_items)
          /\ SubSeq(valid_video_items', 1, Len(valid_video_items)) = valid_video_items
     /\ (pc = "search" /\ pc' \in {"download", "done"} /\ video_contact_mode # "random") =>
          valid_video_items' = valid_video_items
     /\ pc = "download" =>
          /\ valid_video_items' = valid_video_items
          /\ item_idx' = item_idx + 1
          /\ last'.op = "save"
          /\ last'.url = valid_video_items[item_idx].url
          /\ \/ video_paths' = video_paths
             \/ video_paths' = Append(video_paths, VideoPath(last'.url, CacheDir))
     /\ pc \in {"download", "done"} /\ source \in SearchSources =>
          IsSubSeqOf(video_paths, FetchedPaths)]_vars

\* C20 happens: a sequential run fetched its three candidates in order; the
\* first was not saved, the second and the third were.
C20_Witness ==
  /\ source \in SearchSources
  /\ video_contact_mode = "sequential"
  /\ pc = "done"
  /\ item_idx = 4
  /\ term_idx = 3
  /\ video_paths = <<VideoPath(valid_video_items[2].url, CacheDir),
                     VideoPath(valid_video_items[3].url, CacheDir)>>
  /\ VideoPath(valid_video_items[1].url, CacheDir) # video_paths[1]

\* C21: the path list of a search-provider run holds no path twice, and no
\* file is credited to the budget more than once: the credited duration is at
\* most max_clip_duration for each distinct file obtained.
C21_NoPathTwice ==
  source \in SearchSources =>
    /\ \A i, j \in 1..Len(video_paths) : i # j => video_paths[i] # video_paths[j]
    /\ total_duration <= max_clip_duration * Cardinality(Range(video_paths))

====
